---- MODULE Spec2Model ----
(***************************************************************************)
(* A model of simple-llm-service: the SQLite log store (db.ts), the        *)
(* Express routes of the Node server (index.ts: GET /api/logs,             *)
(* GET /api/logs/tags, POST /api/generate) and the requests the logs page  *)
(* sends to that server (LogsPage.tsx).                                    *)
(*                                                                         *)
(* Strings whose characters matter (tags, tag filters) are tuples of       *)
(* one-character strings; other JavaScript values are named by tokens.     *)
(* Timestamps are the integer value of the clock: toISOString() yields     *)
(* fixed-width text, whose lexical order is the order of the instants.     *)
(***************************************************************************)
EXTENDS Integers, Sequences, FiniteSets, TLC

VARIABLES
    db,      \* the rows of table logs
    seq,     \* sqlite_sequence.seq of table logs: the largest id ever assigned
    clock,   \* Date.now()
    resp,    \* the HTTP response written in the current turn of the event loop
    reqs,    \* the POST /api/generate requests, by request number
    issued,  \* every id logCall has returned so far (history)
    net,     \* by request number: the engine's client and its provider calls
    py       \* the PythonManager, its child processes and its timers

vars == <<db, seq, clock, resp, reqs, issued, net, py>>

----------------------------------------------------------------------------
(* Bounds of the model.                                                    *)

MaxRows == 3     \* requests that fill the store in SpecStore
QueryRows == 2   \* requests that fill the store in SpecQuery
MaxClock == 2    \* the last instant of the clock, in days
MaxKeep == 1     \* the largest count_to_keep / days_to_keep of a purge request
MaxReq == 2      \* POST /api/generate requests in Spec
MaxSpawn == 3    \* child processes the PythonManager spawns
MaxStops == 2    \* calls of PythonManager.stop()
MaxWarnings == 1 \* calls of PythonManager.start() that find a child running

----------------------------------------------------------------------------
(* JavaScript and SQL values.                                              *)

JsUndefined == "undefined"
JsNull == "null"
SqlNull == "NULL"

\* A tag or tag filter that is no string.
TagUndefined == <<"undefined">>
TagBoolean == <<"true">>
TagNull == <<"NULL">>

\* req.query.start_date / end_date when the parameter is absent.
NoDate == -1

NoResp == [status |-> 0]

Max2(a, b) == IF a >= b THEN a ELSE b
Min2(a, b) == IF a <= b THEN a ELSE b

\* JSON.stringify of the values the handlers pass to logCall.
JSONstringify(v) ==
    CASE v = JsUndefined -> JsUndefined
      [] v = JsNull -> "TEXT null"
      [] v = "str()" -> "TEXT \"\""
      [] v = "str(hi)" -> "TEXT \"hi\""
      [] v = "str(ok)" -> "TEXT \"ok\""
      [] v = "str(bad)" -> "TEXT \"bad\""
      [] v = "dict" -> "TEXT \"dict\""
      [] v = "text" -> "TEXT \"text\""
      [] v = "obj()" -> "TEXT {}"
      [] v = "obj(x)" -> "TEXT {\"x\":1}"
      [] v = "obj(m)" -> "TEXT {\"tokens\":3}"
      [] OTHER -> "TEXT ?"

\* JS `a || b`.
OrElse(a, b) == IF a \in {JsUndefined, JsNull, "str()"} THEN b ELSE a

\* better-sqlite3 binds undefined and null as SQL NULL, and a string as TEXT.
BindValue(v) == IF v \in {JsUndefined, JsNull} THEN SqlNull ELSE v

\* better-sqlite3 reads SQL NULL as null.
FromSql(v) == IF v = SqlNull THEN JsNull ELSE v

\* better-sqlite3 binds numbers, strings, bigints, buffers and null; any other
\* value (a boolean, an object) makes run() throw a TypeError.
Bindable(tag) == tag # TagBoolean

BindTag(tag) == IF tag \in {TagUndefined, TagNull} THEN TagNull ELSE tag

\* JSON.parse inside try/catch; JSON.parse(null) is null.
parseJsonSafe(str) ==
    CASE str = SqlNull -> JsNull
      [] str = "TEXT null" -> JsNull
      [] str = "TEXT \"\"" -> "str()"
      [] str = "TEXT \"hi\"" -> "str(hi)"
      [] str = "TEXT \"ok\"" -> "str(ok)"
      [] str = "TEXT \"bad\"" -> "str(bad)"
      [] str = "TEXT \"dict\"" -> "dict"
      [] str = "TEXT \"text\"" -> "text"
      [] str = "TEXT {}" -> "obj()"
      [] str = "TEXT {\"x\":1}" -> "obj(x)"
      [] str = "TEXT {\"tokens\":3}" -> "obj(m)"
      [] OTHER -> str

\* JSON.stringify of the metadata object: a member whose value is undefined
\* is left out of the text (JsUndefined marks its absence), every other
\* member is written as JSON.
StringifyObject(o) == [members |-> [k \in DOMAIN o |-> JSONstringify(o[k])]]

\* parseJsonSafe of the metadata column, which logCall always fills; a member
\* absent from the text reads as undefined.
ParseObject(str) ==
    [k \in DOMAIN str.members |->
        IF str.members[k] = JsUndefined THEN JsUndefined
        ELSE parseJsonSafe(str.members[k])]

----------------------------------------------------------------------------
(* db.ts: the table and logCall.                                           *)

Ids(rows) == {r.id : r \in rows}

MaxOf(S) == CHOOSE m \in S : \A x \in S : x <= m

\* INTEGER PRIMARY KEY AUTOINCREMENT: one more than the largest rowid the
\* table has ever held (sqlite_sequence), whether or not that row still exists.
NextRowidOff(rows, s) == MaxOf(Ids(rows) \cup {s})
NextRowid(rows, s) == MaxOf(Ids(rows) \cup {s}) + 1

\* The row INSERTed by logCall(data) at instant now; the column locked is the
\* literal 0 of the statement.
logCallRow(data, now, rows, s) ==
    [ id |-> NextRowid(rows, s),
      timestamp |-> IF "timestamp" \in DOMAIN data THEN data.timestamp ELSE now,
      model |-> BindValue(data.model),
      prompt |-> BindValue(data.prompt),
      response |-> BindValue(JSONstringify(data.response)),
      duration_ms |-> data.duration_ms,
      error |-> BindValue(data.error),
      metadata |-> StringifyObject(data.metadata),
      response_meta |-> BindValue(JSONstringify(OrElse(data.response_meta, "obj()"))),
      locked |-> 0,
      tag |-> BindTag(data.tag) ]

\* stmt.run throws when a parameter cannot be bound or the storage fails.
logCallThrows(data, fault) == fault \/ ~Bindable(data.tag)

----------------------------------------------------------------------------
(* db.ts: getLogs, countLogs, getUniqueTags.                               *)

\* SQLite folds the case of ASCII letters when LIKE compares two characters.
FoldNone(c) == c
Fold(c) == CASE c = "A" -> "a" [] c = "B" -> "b" [] OTHER -> c

\* SQLite's LIKE: % matches any run of characters, _ any one character, and
\* any other character matches itself up to ASCII case.
RECURSIVE Like(_, _)
Like(pat, str) ==
    IF pat = <<>> THEN str = <<>>
    ELSE IF Head(pat) = "%"
         THEN Like(Tail(pat), str) \/ (str # <<>> /\ Like(pat, Tail(str)))
         ELSE /\ str # <<>>
              /\ (Head(pat) = "_" \/ Fold(Head(pat)) = Fold(Head(str)))
              /\ Like(Tail(pat), Tail(str))

\* `if (filters.tag)`: undefined and the empty string add no condition.
TagGiven(f) == f.tag # TagUndefined /\ f.tag # <<>>
DateGiven(d) == d # NoDate

\* tag LIKE '%<filter>%'; NULL LIKE anything is NULL, which WHERE rejects.
TagCondition(f, r) == r.tag # TagNull /\ Like(<<"%">> \o f.tag \o <<"%">>, r.tag)

\* The WHERE clause getLogs and countLogs each build from the filters.
Conditions(f, r) ==
    /\ TagGiven(f) => TagCondition(f, r)
    /\ DateGiven(f.start_date) => r.timestamp >= f.start_date
    /\ DateGiven(f.end_date) => r.timestamp <= f.end_date

RECURSIVE OrderByIdAsc(_)
OrderByIdAsc(S) ==
    IF S = {} THEN <<>>
    ELSE LET low == CHOOSE r \in S : \A q \in S : q.id >= r.id
         IN <<low>> \o OrderByIdAsc(S \ {low})

RECURSIVE OrderByIdDesc(_)
OrderByIdDesc(S) ==
    IF S = {} THEN <<>>
    ELSE LET top == CHOOSE r \in S : \A q \in S : q.id <= r.id
         IN <<top>> \o OrderByIdDesc(S \ {top})

\* LIMIT ? OFFSET ?: a negative LIMIT is no limit, a negative OFFSET is 0.
LimitOffset(rowsSeq, limit, offset) ==
    LET off == Max2(offset, 0)
        last == IF limit < 0 THEN Len(rowsSeq) ELSE Min2(Len(rowsSeq), off + limit)
    IN SubSeq(rowsSeq, off + 1, last)

\* The object getLogs makes of a row.
MapRow(row) ==
    [row EXCEPT !.model = FromSql(@),
                !.prompt = FromSql(@),
                !.error = FromSql(@),
                !.response = parseJsonSafe(@),
                !.metadata = ParseObject(@),
                !.response_meta = parseJsonSafe(@),
                !.locked = (@ # 0)]

getLogs(limit, offset, f, rows) ==
    LET sel == LimitOffset(OrderByIdDesc({r \in rows : Conditions(f, r)}), limit, offset)
    IN [i \in 1..Len(sel) |-> MapRow(sel[i])]

countLogsAll(f, rows) == Cardinality(rows)
countLogs(f, rows) == Cardinality({r \in rows : Conditions(f, r)})

\* SELECT DISTINCT tag ... WHERE tag IS NOT NULL AND tag != ''.
getUniqueTags(rows) == {r.tag : r \in {q \in rows : q.tag # TagNull /\ q.tag # <<>>}}

----------------------------------------------------------------------------
(* index.ts: the routes of the server, and the turn of the event loop.     *)

\* Every app.get / app.post of index.ts; the server registers no other route
\* under /api, and db.ts exports no statement that updates or deletes a row.
Routes ==
    { <<"GET", "/api/settings">>, <<"POST", "/api/settings">>,
      <<"GET", "/api/logs">>, <<"GET", "/api/logs/tags">>,
      <<"POST", "/api/generate">> }

Routed(method, path) == <<method, path>> \in Routes

\* A request no route matches falls through to Express's final handler.
NotFound(method, path, query) ==
    [status |-> 404, method |-> method, path |-> path, query |-> query]

NoRequest == [pc |-> "none"]

\* `private process: ChildProcess | null = null`; the children are numbered
\* from 1 in the order of their spawn.
NoChild == 0

\* The PythonManager after its constructor: no child, no timer. kills is the
\* history of the SIGKILLs sent: the child stop() had signalled when it set the
\* timer, and the child the timer signalled.
NoPython ==
    [ process |-> NoChild, spawned |-> 0,
      children |-> [c \in 1..MaxSpawn |-> [st |-> "none", signals |-> {}]],
      timers |-> <<>>, stops |-> 0, resolved |-> 0, warnings |-> 0, kills |-> {} ]

\* The engine has not been called for the request.
NoCall == [st |-> "idle"]

Init ==
    /\ db = {}
    /\ seq = 0
    /\ clock = 0
    /\ resp = NoResp
    /\ reqs = [n \in 1..MaxReq |-> NoRequest]
    /\ issued = {}
    /\ net = [n \in 1..MaxReq |-> NoCall]
    /\ py = NoPython

\* Time passes between two turns of the event loop.
Tick ==
    /\ resp = NoResp
    /\ clock < MaxClock
    /\ clock' = clock + 1
    /\ UNCHANGED <<db, seq, resp, reqs, issued, net, py>>

\* The response of the turn is on the wire; the next turn starts.
EndTurn ==
    /\ resp # NoResp
    /\ resp' = NoResp
    /\ UNCHANGED <<db, seq, clock, reqs, issued, net, py>>

----------------------------------------------------------------------------
(* llmManager.ts: what generate() can return for a request.                *)

\* `req.schema && req.response_format !== 'text'`
StructuredDictOnly(body) ==
    body.schema \notin {JsUndefined, JsNull, "str()"} /\ body.response_format = "dict"
Structured(body) ==
    body.schema \notin {JsUndefined, JsNull, "str()"} /\ body.response_format # "text"

\* stringToZodSchema throws on a schema it cannot parse.
CompilesAny(schema) == TRUE
Compiles(schema) == schema = "str(ok)"

Success(data, meta) ==
    [status |-> "success", data |-> data, response_meta |-> meta, error |-> JsUndefined]
Failure(msg) ==
    [status |-> "error", data |-> JsUndefined, response_meta |-> JsUndefined, error |-> msg]

\* generate() never rejects: every path returns a result, and each error
\* result carries `error.message || 'Unknown error occurred'`.
EngineResults(body) ==
    IF Structured(body)
    THEN IF ~Compiles(body.schema)
         THEN {Failure("str(Invalid schema syntax)")}
         ELSE {Success("obj(x)", "obj(m)"), Success("obj(x)", JsNull),
               Failure("str(provider error)")}
    ELSE {Success("str(hi)", JsUndefined), Failure("str(provider error)")}

----------------------------------------------------------------------------
(* index.ts: app.post("/api/generate").                                    *)

\* The three objects the handler passes to logCall.
ErrorLog(body, duration, msg) ==
    [ model |-> body.model, prompt |-> body.prompt, response |-> JsNull,
      duration_ms |-> duration, error |-> msg,
      metadata |-> [format |-> body.response_format, schema |-> body.schema],
      response_meta |-> JsNull, tag |-> body.tag ]

SuccessLogStamped(body, duration, result) ==
    [ model |-> body.model, prompt |-> body.prompt, response |-> result.data,
      duration_ms |-> duration, error |-> JsNull,
      metadata |-> [format |-> body.response_format, schema |-> body.schema],
      response_meta |-> result.response_meta, tag |-> body.tag, timestamp |-> 0 ]
SuccessLog(body, duration, result) ==
    [ model |-> body.model, prompt |-> body.prompt, response |-> result.data,
      duration_ms |-> duration, error |-> JsNull,
      metadata |-> [format |-> body.response_format, schema |-> body.schema],
      response_meta |-> result.response_meta, tag |-> body.tag ]

FirstLog(body, duration, result) ==
    IF result.status = "error"
    THEN ErrorLog(body, duration, OrElse(result.error, JsNull))
    ELSE SuccessLog(body, duration, result)

\* res.status(500).json({detail}) / res.json(...) of the try block.
FirstResponse(result) ==
    IF result.status = "error"
    THEN [status |-> 500, detail |-> result.error]
    ELSE IF result.response_meta \notin {JsUndefined, JsNull}
         THEN [status |-> 200, shape |-> "wrapped", data |-> result.data,
               response_meta |-> result.response_meta]
         ELSE [status |-> 200, shape |-> "bare", data |-> result.data]

\* e.message of the exception logCall threw.
StoreErrorMsg == "str(store error)"

\* logCall(data): the INSERT, which commits the row and the new
\* sqlite_sequence together, and returns lastInsertRowid.
logCallRestamp(data) ==
    LET row == logCallRow(data, clock, db, seq)
    IN /\ db' = {[r EXCEPT !.timestamp = clock] : r \in db} \cup {row}
       /\ seq' = row.id
       /\ issued' = issued \cup {row.id}
logCall(data) ==
    LET row == logCallRow(data, clock, db, seq)
    IN /\ db' = db \cup {row}
       /\ seq' = row.id
       /\ issued' = issued \cup {row.id}

\* The handler up to `await llmService.generate(...)`.
GenerateStart(n, body) ==
    /\ resp = NoResp
    /\ reqs[n] = NoRequest
    /\ \A k \in 1..(n - 1) : reqs[k] # NoRequest
    /\ reqs' = [reqs EXCEPT ![n] =
                    [pc |-> "await", body |-> body, startTime |-> clock]]
    /\ UNCHANGED <<db, seq, clock, resp, issued, net, py>>

\* The handler from the return of generate() to its end, one turn of the event
\* loop: the logCall of the try block, the response, and on an exception the
\* catch block with its own logCall. fault1 and fault2 say whether the storage
\* fails the first and the second INSERT.
GenerateResume(n, result, fault1, fault2) ==
    /\ resp = NoResp
    /\ reqs[n].pc = "await"
    /\ result \in EngineResults(reqs[n].body)
    /\ LET body == reqs[n].body
           duration == clock - reqs[n].startTime
           first == FirstLog(body, duration, result)
           second == ErrorLog(body, duration, OrElse(StoreErrorMsg, "str(Internal Server Error)"))
           done(res, ids, unhandled) ==
               [pc |-> "done", body |-> body, startTime |-> reqs[n].startTime,
                result |-> result, res |-> res, rows |-> ids, unhandled |-> unhandled]
       IN IF ~logCallThrows(first, fault1)
          THEN /\ logCall(first)
               /\ reqs' = [reqs EXCEPT ![n] =
                              done(FirstResponse(result), {NextRowid(db, seq)}, FALSE)]
          ELSE IF ~logCallThrows(second, fault2)
          THEN /\ logCall(second)
               /\ reqs' = [reqs EXCEPT ![n] =
                              done([status |-> 500, detail |-> StoreErrorMsg],
                                   {NextRowid(db, seq)}, FALSE)]
          ELSE /\ reqs' = [reqs EXCEPT ![n] = done(NoResp, {}, TRUE)]
               /\ UNCHANGED <<db, seq, issued>>
    /\ UNCHANGED <<clock, resp, net, py>>

----------------------------------------------------------------------------
(* index.ts: app.get("/api/logs") and app.get("/api/logs/tags").           *)

\* Math.ceil(total / limit); res.json writes Infinity and NaN as null.
Pages(total, limit) ==
    IF limit = 0 THEN JsNull
    ELSE IF limit > 0 THEN (total + limit - 1) \div limit
    ELSE 0 - (total \div (0 - limit))

\* getLogs and countLogs run one after the other in the same synchronous
\* handler: no other handler runs between the two SELECTs.
GetLogsHandler(page, limit, f) ==
    /\ resp = NoResp
    /\ Routed("GET", "/api/logs")
    /\ LET offset == (page - 1) * limit
           logs == getLogs(limit, offset, f, db)
           total == countLogs(f, db)
       IN resp' = [ status |-> 200, method |-> "GET", path |-> "/api/logs",
                    query |-> [page |-> page, limit |-> limit, filters |-> f],
                    data |-> logs, total |-> total, pages |-> Pages(total, limit) ]
    /\ UNCHANGED <<db, seq, clock, reqs, issued, net, py>>

GetTagsHandler ==
    /\ resp = NoResp
    /\ Routed("GET", "/api/logs/tags")
    /\ resp' = [ status |-> 200, method |-> "GET", path |-> "/api/logs/tags",
                 data |-> getUniqueTags(db) ]
    /\ UNCHANGED <<db, seq, clock, reqs, issued, net, py>>

----------------------------------------------------------------------------
(* LogsPage.tsx: the requests of handlePurge, handleDelete and toggleLock, *)
(* as the server of index.ts answers them.                                 *)

\* DELETE /api/logs?count_to_keep=N or ?days_to_keep=D (handlePurge).
PurgeRequest(param, val) ==
    /\ resp = NoResp
    /\ ~Routed("DELETE", "/api/logs")
    /\ resp' = NotFound("DELETE", "/api/logs", <<param, val>>)
    /\ UNCHANGED <<db, seq, clock, reqs, issued, net, py>>

\* LogViewer.tsx: DELETE <clearEndpoint>, by default /api/logs, with no query
\* (clearLogs).
ClearLogsRequest ==
    /\ resp = NoResp
    /\ ~Routed("DELETE", "/api/logs")
    /\ resp' = NotFound("DELETE", "/api/logs", <<>>)
    /\ UNCHANGED <<db, seq, clock, reqs, issued, net, py>>

\* DELETE /api/logs/:id (handleDelete).
DeleteRequest(id) ==
    /\ resp = NoResp
    /\ ~Routed("DELETE", "/api/logs/:id")
    /\ resp' = NotFound("DELETE", "/api/logs/:id", <<"id", id>>)
    /\ UNCHANGED <<db, seq, clock, reqs, issued, net, py>>

\* PATCH /api/logs/:id {locked: v} (toggleLock).
PatchRequest(id, v) ==
    /\ resp = NoResp
    /\ ~Routed("PATCH", "/api/logs/:id")
    /\ resp' = NotFound("PATCH", "/api/logs/:id", <<"id", id, "locked", v>>)
    /\ UNCHANGED <<db, seq, clock, reqs, issued, net, py>>

----------------------------------------------------------------------------
(* Spec: concurrent POST /api/generate requests over the store.            *)

\* The request bodies of Spec.
GenBodies ==
    { [model |-> "str(m)", prompt |-> "str(p)", response_format |-> rf,
       schema |-> sc, tag |-> tg] :
         rf \in {JsUndefined, "dict"}, sc \in {JsUndefined, "str(ok)", "str(bad)"},
         tg \in {TagUndefined, TagBoolean} }

Start == \E n \in 1..MaxReq, body \in GenBodies : GenerateStart(n, body)

Resume ==
    \E n \in 1..MaxReq :
        /\ reqs[n].pc = "await"
        /\ \E result \in EngineResults(reqs[n].body), fault1, fault2 \in BOOLEAN :
               GenerateResume(n, result, fault1, fault2)

Next == Tick \/ Start \/ Resume

Spec == Init /\ [][Next]_vars

----------------------------------------------------------------------------
(* SpecStore: the log store behind the logs page, filled by text           *)
(* completions that succeed, one request in flight at a time.              *)

InitRows(n) ==
    /\ db = {}
    /\ seq = 0
    /\ clock = 0
    /\ resp = NoResp
    /\ reqs = [k \in 1..n |-> NoRequest]
    /\ issued = {}
    /\ net = [k \in 1..n |-> NoCall]
    /\ py = NoPython

\* The tags of the requests that fill the store.
StoreTags == {TagUndefined, <<"a">>, <<"A", "b">>}

TextBody(tag) ==
    [model |-> "str(m)", prompt |-> "str(p)", response_format |-> JsUndefined,
     schema |-> JsUndefined, tag |-> tag]

StoreStart ==
    \E n \in DOMAIN reqs, tag \in StoreTags :
        /\ \A k \in DOMAIN reqs : reqs[k].pc # "await"
        /\ GenerateStart(n, TextBody(tag))

StoreResume ==
    \E n \in DOMAIN reqs :
        /\ reqs[n].pc = "await"
        /\ GenerateResume(n, Success("str(hi)", JsUndefined), FALSE, FALSE)

\* In the store specifications the provider answers within the instant of the
\* request: time passes between requests only.
StoreTick ==
    /\ \A k \in DOMAIN reqs : reqs[k].pc # "await"
    /\ Tick

Purge == \E param \in {"count_to_keep", "days_to_keep"}, val \in 0..MaxKeep :
            PurgeRequest(param, val)

Delete == \E id \in 1..MaxRows : DeleteRequest(id)

Patch == \E id \in 1..MaxRows, v \in BOOLEAN : PatchRequest(id, v)

InitStore == InitRows(MaxRows)

NextStore ==
    \/ StoreTick \/ EndTurn \/ StoreStart \/ StoreResume
    \/ GetTagsHandler \/ Purge \/ Delete \/ Patch \/ ClearLogsRequest

SpecStore == InitStore /\ [][NextStore]_vars

----------------------------------------------------------------------------
(* SpecOrder: concurrent text completions, which complete in any order.    *)

OrderBodies == {TextBody(tg) : tg \in {TagUndefined, TagBoolean}}

OrderStart == \E n \in DOMAIN reqs, body \in OrderBodies : GenerateStart(n, body)

OrderResume ==
    \E n \in DOMAIN reqs :
        /\ reqs[n].pc = "await"
        /\ \E result \in EngineResults(reqs[n].body), fault1 \in BOOLEAN :
               GenerateResume(n, result, fault1, FALSE)

InitOrder == InitRows(MaxReq)

NextOrder == Tick \/ OrderStart \/ OrderResume

SpecOrder == InitOrder /\ [][NextOrder]_vars

----------------------------------------------------------------------------
(* SpecQuery: GET /api/logs over the same store.                           *)

\* The query strings of GET /api/logs.
QueryPages == {0, 1, 2}
QueryLimits == {0 - 1, 0, 1, 2}
FilterTags == {TagUndefined, <<>>, <<"a">>, <<"a", "b">>, <<"_">>, <<"%">>}
FilterDates == {<<NoDate, NoDate>>, <<1, NoDate>>, <<NoDate, 1>>}
Filters ==
    { [tag |-> t, start_date |-> d[1], end_date |-> d[2]] :
        t \in FilterTags, d \in FilterDates }

GetLogs ==
    \E page \in QueryPages, limit \in QueryLimits, f \in Filters :
        GetLogsHandler(page, limit, f)

InitQuery == InitRows(QueryRows)

NextQuery == StoreTick \/ EndTurn \/ StoreStart \/ StoreResume \/ GetLogs

SpecQuery == InitQuery /\ [][NextQuery]_vars

----------------------------------------------------------------------------
(* The log store: claims C1 to C3, C6 and C10, under SpecStore.            *)

Locked(rows) == {r \in rows : r.locked # 0}
Unlocked(rows) == {r \in rows : r.locked = 0}

\* The n unlocked rows with the largest ids.
NewestUnlocked(n, rows) ==
    {r \in Unlocked(rows) : Cardinality({q \in Unlocked(rows) : q.id > r.id}) < n}

\* C2: a purge request with count_to_keep = n leaves exactly the locked rows
\* and the n unlocked rows with the largest ids.
C2_PurgeKeepsLastN ==
    [][\A n \in 1..MaxKeep :
          PurgeRequest("count_to_keep", n)
              => db' = Locked(db) \cup NewestUnlocked(n, db)]_vars

\* C3: a purge request with days_to_keep = d deletes exactly the unlocked rows
\* whose timestamp is older than now - d days.
C3_PurgeKeepsSinceDays ==
    [][\A d \in 1..MaxKeep :
          PurgeRequest("days_to_keep", d)
              => db' = {r \in db : r.locked # 0 \/ ~(r.timestamp < clock - d)}]_vars

\* C6: each row logCall inserts has an id greater than every id assigned
\* before it, and is not locked.
C6_AppendFreshId ==
    [][\A r \in db' \ db :
          /\ \A i \in issued : r.id > i
          /\ MapRow(r).locked = FALSE]_vars

C6_Witness ==
    /\ Cardinality(db) >= 2
    /\ issued = Ids(db)
    /\ \A r \in db : r.locked = 0

\* C10: PATCH /api/logs/:id {locked: v} on an id of the store sets locked to
\* v on that row and changes nothing else; on any other id it answers 404
\* and changes nothing.
C10_SetLocked ==
    [][\A id \in 1..MaxRows, v \in BOOLEAN :
          PatchRequest(id, v)
              => IF id \in Ids(db)
                 THEN db' = {IF r.id = id THEN [r EXCEPT !.locked = IF v THEN 1 ELSE 0]
                                          ELSE r : r \in db}
                 ELSE db' = db /\ resp'.status = 404]_vars

----------------------------------------------------------------------------
(* GET /api/logs: claims C7 to C9, under SpecQuery.                        *)

IsLogs(r) == r.status = 200 /\ r.path = "/api/logs"

QueryOffset(r) == (r.query.page - 1) * r.query.limit

\* The rows of the store that pass the WHERE clause of the response's query.
Matches(r) == {q \in db : Conditions(r.query.filters, q)}

\* The rank of a matching row, newest first: 1 for the largest id.
Rank(r, row) == 1 + Cardinality({q \in Matches(r) : q.id > row.id})

DataIds(r) == {r.data[i].id : i \in 1..Len(r.data)}

Descending(r) == \A i \in 1..(Len(r.data) - 1) : r.data[i].id > r.data[i + 1].id

\* C7 as stated: the page is in strictly descending id order, holds the
\* matches that follow the first offset ones, and has at most limit records
\* (none when limit is negative).
C7_PageAtMostLimit ==
    IsLogs(resp) =>
        /\ Descending(resp)
        /\ DataIds(resp) \subseteq {q.id : q \in Matches(resp)}
        /\ \A q \in Matches(resp) : q.id \in DataIds(resp) => Rank(resp, q) > QueryOffset(resp)
        /\ Len(resp.data) <= Max2(resp.query.limit, 0)

\* C7 as amended: for a limit >= 0 the page holds exactly the matches of rank
\* offset+1 .. offset+limit, newest first, so at most limit records; a
\* negative limit is no limit (every match after the offset is returned) and
\* a negative offset skips nothing.
C7_Page ==
    IsLogs(resp) =>
        LET off == Max2(QueryOffset(resp), 0)
            lim == resp.query.limit
        IN /\ Descending(resp)
           /\ Len(resp.data) = Cardinality(DataIds(resp))
           /\ DataIds(resp) =
                 {q.id : q \in {m \in Matches(resp) :
                      Rank(resp, m) > off /\ (lim >= 0 => Rank(resp, m) <= off + lim)}}
           /\ \A i \in 1..Len(resp.data) : \E q \in db : resp.data[i] = MapRow(q)
           /\ lim >= 0 => Len(resp.data) <= lim

\* A page that skipped a newer match and was cut by the limit.
C7_Witness ==
    /\ IsLogs(resp)
    /\ resp.query.limit = 1
    /\ QueryOffset(resp) = 1
    /\ Cardinality(Matches(resp)) = 2
    /\ Len(resp.data) = 1
    /\ \E q \in Matches(resp) : q.id > resp.data[1].id

\* f occurs in t as it is written.
Substring(f, t) ==
    \E i \in 0..(Len(t) - Len(f)) : SubSeq(t, i + 1, i + Len(f)) = f

SameLetter(c, d) == c = d \/ {c, d} = {"a", "A"} \/ {c, d} = {"b", "B"}

\* t matches the LIKE pattern %f%: the characters of f other than % sit at
\* increasing positions of t, next to each other unless a % separates them;
\* _ sits on any character, a letter on the same letter in either case.
LikeContains(f, t) ==
    \E pos \in [1..Len(f) -> 0..Len(t)] :
        /\ \A i \in 1..Len(f) : (pos[i] = 0) <=> (f[i] = "%")
        /\ \A i \in 1..Len(f) :
              pos[i] # 0 => f[i] = "_" \/ SameLetter(f[i], t[pos[i]])
        /\ \A i, j \in 1..Len(f) :
              (i < j /\ pos[i] # 0 /\ pos[j] # 0)
                  => /\ pos[i] < pos[j]
                     /\ j = i + 1 => pos[j] = pos[i] + 1

DateConditions(f, r) ==
    /\ f.start_date # NoDate => r.timestamp >= f.start_date
    /\ f.end_date # NoDate => r.timestamp <= f.end_date

\* C8 as stated: with a tag filter f, the records counted and returned are
\* those whose tag contains f as a case-sensitive, literal substring.
C8_TagSubstring ==
    (IsLogs(resp) /\ TagGiven(resp.query.filters)) =>
        LET f == resp.query.filters
            hits == {r \in db : /\ r.tag # TagNull
                                /\ Substring(f.tag, r.tag)
                                /\ DateConditions(f, r)}
        IN /\ resp.total = Cardinality(hits)
           /\ DataIds(resp) \subseteq {r.id : r \in hits}

\* C8 as amended: with a non-empty tag filter f, the records counted and
\* returned are those whose tag is not null and matches the LIKE pattern
\* %f%: letters match in either case, and _ and % in f are wildcards.
C8_TagLike ==
    (IsLogs(resp) /\ TagGiven(resp.query.filters)) =>
        LET f == resp.query.filters
            hits == {r \in db : /\ r.tag # TagNull
                                /\ LikeContains(f.tag, r.tag)
                                /\ DateConditions(f, r)}
        IN /\ resp.total = Cardinality(hits)
           /\ DataIds(resp) \subseteq {r.id : r \in hits}
           /\ (resp.query.limit < 0 /\ QueryOffset(resp) <= 0)
                 => DataIds(resp) = {r.id : r \in hits}

\* The filter a returned a row tagged Ab, and the filter _ a row tagged a.
C8_Witness ==
    /\ IsLogs(resp)
    /\ \/ /\ resp.query.filters.tag = <<"a">>
          /\ \E i \in 1..Len(resp.data) : resp.data[i].tag = <<"A", "b">>
       \/ /\ resp.query.filters.tag = <<"_">>
          /\ \E i \in 1..Len(resp.data) : resp.data[i].tag = <<"a">>

\* C9: the total of a GET /api/logs response is the number of records the
\* query returns for the same filter with offset 0 and a limit of the store
\* size, and total and page are both read from the store as it is when the
\* response is written.
C9_CountIsQueryLength ==
    IsLogs(resp) =>
        /\ resp.total = Len(getLogs(Cardinality(db), 0, resp.query.filters, db))
        /\ resp.data = getLogs(resp.query.limit, QueryOffset(resp), resp.query.filters, db)

\* A filter that leaves out a row of the store.
C9_Witness ==
    /\ IsLogs(resp)
    /\ Cardinality(db) = 2
    /\ resp.total = 1
    /\ Len(resp.data) = 1

----------------------------------------------------------------------------
(* POST /api/generate: claims C4 and C5, under Spec.                       *)

Done == {n \in 1..MaxReq : reqs[n].pc = "done"}

\* The rows the handler of request n wrote.
RowsOf(n) == {r \in db : r.id \in reqs[n].rows}

\* C4: a row written for a generation that succeeded has a null error; a row
\* written for a generation that failed has a non-empty error and a null
\* response; no row has both an error and a response.
C4_LogFieldsConsistent ==
    \A n \in Done : \A r \in RowsOf(n) :
        /\ reqs[n].result.status = "success" => MapRow(r).error = JsNull
        /\ reqs[n].result.status = "error"
              => /\ MapRow(r).error \notin {JsNull, "str()"}
                 /\ MapRow(r).response = JsNull
        /\ ~(MapRow(r).error # JsNull /\ MapRow(r).response # JsNull)

\* C5: every request whose handler has run to its end has written exactly
\* one row: the table holds as many rows as there are finished requests.
C5_OneLogPerRequest ==
    /\ Cardinality(db) = Cardinality(Done)
    /\ \A n \in Done : Cardinality(RowsOf(n)) = 1

----------------------------------------------------------------------------
(* The log store: claim C11, under SpecStore.                              *)

\* C11: a delete request for an id of the table removes that row and no
\* other, locked or not; for an id not in the table it is answered 404 and
\* leaves the table as it was.
C11_DeleteOne ==
    [][\A id \in 1..MaxRows :
          DeleteRequest(id)
              => IF id \in Ids(db)
                 THEN db' = {r \in db : r.id # id}
                 ELSE db' = db /\ resp'.status = 404]_vars

----------------------------------------------------------------------------
(* llmManager.ts: getClientForRequest and getModelName.                    *)
(*                                                                         *)
(* The text of a model identifier is read as a tuple of words and of the   *)
(* separators ":" and "/"; a provider configuration is undefined           *)
(* (given = FALSE) or a function from provider names to                    *)
(* [api_key, base_url].                                                    *)

Truthy(v) == v \notin {JsUndefined, JsNull, "str()"}

OpenRouterUrl == "str(https://openrouter.ai/api/v1)"
LocalUrl == "str(http://localhost:11434/v1)"
RemoteUrl == "str(https://api.example.com/v1)"

\* base_url?.includes('localhost') || base_url?.includes('127.0.0.1')
IsLocalUrl(url) == url = LocalUrl

\* The characters of the model identifiers, word by word.
Words(model) ==
    CASE model = "str(gpt)" -> <<"gpt">>
      [] model = "str(gpt-4o)" -> <<"gpt-4o">>
      [] model = "str(openai/gpt)" -> <<"openai", "/", "gpt">>
      [] model = "str(openai:gpt)" -> <<"openai", ":", "gpt">>
      [] model = "str(ollama:qwen3:8b)" -> <<"ollama", ":", "qwen3", ":", "8b">>
      [] model = "str(openrouter:google/gemini)" -> <<"openrouter", ":", "google", "/", "gemini">>
      [] model = "str(mycorp:m)" -> <<"mycorp", ":", "m">>
      [] model = "str(unknown:m)" -> <<"unknown", ":", "m">>
      [] OTHER -> <<model>>

NoProviders == [given |-> FALSE, entries |-> [p \in {} |-> JsUndefined]]
Providers(entries) == [given |-> TRUE, entries |-> entries]

\* model.includes(sep)
includes(model, sep) == \E i \in 1..Len(model) : model[i] = sep

\* model.split(sep)[0]
FirstPart(model, sep) ==
    LET at == {i \in 1..Len(model) : model[i] = sep}
    IN IF at = {} THEN model
       ELSE SubSeq(model, 1, (CHOOSE i \in at : \A j \in at : i <= j) - 1)

\* providers[name] || {}
ConfigOf(providers, name) ==
    IF name \in DOMAIN providers.entries THEN providers.entries[name]
    ELSE [api_key |-> JsUndefined, base_url |-> JsUndefined]

\* The provider the request is routed to: the text before the first ":" (or,
\* with no ":", before the first "/") when the configuration has an entry of
\* that name, else openrouter.
ProviderName(model, providers) ==
    IF includes(Words(model), "/") \/ includes(Words(model), ":")
    THEN LET separator == IF includes(Words(model), ":") THEN ":" ELSE "/"
             parts0 == FirstPart(Words(model), separator)
         IN IF Len(parts0) = 1 /\ parts0[1] \in DOMAIN providers.entries
            THEN parts0[1]
            ELSE "openrouter"
    ELSE "openrouter"

\* The client built from the environment alone: this.defaultClient, and the
\* client of a request made with no provider configuration.
DefaultClient(env) ==
    [ provider |-> "openrouter",
      apiKey |-> OrElse(env.OPENROUTER_API_KEY, OrElse(env.OPENAI_API_KEY, "str(undefined)")),
      baseURL |-> OrElse(env.OPENROUTER_BASE_URL, OpenRouterUrl),
      fallback |-> TRUE ]

getClientForRequest(model, providers, env) ==
    IF ~providers.given THEN DefaultClient(env)
    ELSE LET providerName == ProviderName(model, providers)
             config == ConfigOf(providers, providerName)
             apiKey == OrElse(config.api_key,
                              IF providerName = "openrouter"
                              THEN env.OPENROUTER_API_KEY ELSE JsUndefined)
             isLocalProvider == providerName = "ollama" \/ IsLocalUrl(config.base_url)
         IN IF ~Truthy(apiKey) /\ ~isLocalProvider
            THEN DefaultClient(env)
            ELSE [ provider |-> providerName,
                   apiKey |-> IF Truthy(apiKey) THEN apiKey ELSE "str(ollama)",
                   baseURL |-> OrElse(config.base_url,
                                      IF providerName = "openrouter"
                                      THEN OpenRouterUrl ELSE JsUndefined),
                   fallback |-> FALSE ]

\* The prefixes getModelName strips.
KnownPrefixes == {"openrouter", "ollama", "openai", "anthropic"}

\* The model name sent to the provider, word by word.
getModelName(modelWithPrefix) ==
    LET w == Words(modelWithPrefix)
    IN IF Len(w) >= 2 /\ w[1] \in KnownPrefixes /\ w[2] = ":"
       THEN SubSeq(w, 3, Len(w))
       ELSE w

----------------------------------------------------------------------------
(* llmManager.ts: generate and generateText.                               *)

\* The request index.ts builds from the body: `model: model || 'gpt-4o'`.
EngineRequest(body) ==
    [ model |-> OrElse(body.model, "str(gpt-4o)"),
      prompt |-> body.prompt,
      response_format |-> body.response_format,
      schema |-> body.schema ]

\* One client.chat.completions.create(...) of the engine.
StructuredCall(client, req) ==
    [ kind |-> "structured", client |-> client, model |-> getModelName(req.model),
      content |-> req.prompt, max_retries |-> 3 ]
TextCall(client, req) ==
    [ kind |-> "text", client |-> client, model |-> getModelName(req.model),
      content |-> req.prompt, max_retries |-> 0 ]

NoResult == [status |-> "pending"]

\* generate() up to its first await: the client, the schema, and the call
\* it sends; a schema that does not compile returns before any call.
generate(n, providers, env) ==
    /\ resp = NoResp
    /\ reqs[n].pc = "await"
    /\ net[n] = NoCall
    /\ LET req == EngineRequest(reqs[n].body)
           client == getClientForRequest(req.model, providers, env)
           engine(st, calls, result) ==
               [st |-> st, providers |-> providers, env |-> env, req |-> req,
                calls |-> calls, result |-> result]
       IN net' = [net EXCEPT ![n] =
                     IF Structured(req)
                     THEN IF ~Compiles(req.schema)
                          THEN engine("returned", <<>>, Failure("str(Invalid schema syntax)"))
                          ELSE engine("calling", <<StructuredCall(client, req)>>, NoResult)
                     ELSE engine("calling", <<TextCall(client, req)>>, NoResult)]
    /\ UNCHANGED <<db, seq, clock, resp, reqs, issued, py>>

\* `const { _meta, ...data } = result`: the payload without _meta, and _meta;
\* a payload with no _meta is the data, with response_meta null.
SplitMetaKeep(result) ==
    IF "_meta" \in DOMAIN result
    THEN [data |-> result, response_meta |-> result._meta]
    ELSE [data |-> result, response_meta |-> JsNull]
SplitMeta(result) ==
    IF "_meta" \in DOMAIN result
    THEN [data |-> [k \in DOMAIN result \ {"_meta"} |-> result[k]],
          response_meta |-> result._meta]
    ELSE [data |-> result, response_meta |-> JsNull]

\* The token that names the object {x: 1}.
ObjToken(o) == IF o = [x |-> "1"] THEN "obj(x)" ELSE "obj()"

\* What a create() call of the engine can come back with: the parsed object
\* (with or without _meta) or the completion text, or an exception.
Payloads == {[x |-> "1", _meta |-> "obj(m)"], [x |-> "1"]}
Threw == [threw |-> TRUE]
Returned(v) == [threw |-> FALSE, value |-> v]
Outcomes(call) ==
    IF call.kind = "structured"
    THEN {Returned(p) : p \in Payloads} \cup {Threw}
    ELSE {Returned("str(hi)"), Threw}

\* generate() from the return of create() to its own return.
createReturns(n, outcome) ==
    /\ resp = NoResp
    /\ net[n].st = "calling"
    /\ LET call == net[n].calls[Len(net[n].calls)]
           result ==
               IF outcome.threw THEN Failure("str(provider error)")
               ELSE IF call.kind = "text" THEN Success(outcome.value, JsUndefined)
               ELSE LET part == SplitMeta(outcome.value)
                    IN Success(ObjToken(part.data), part.response_meta)
       IN /\ outcome \in Outcomes(call)
          /\ net' = [net EXCEPT ![n].st = "returned", ![n].result = result]
    /\ UNCHANGED <<db, seq, clock, resp, reqs, issued, py>>

----------------------------------------------------------------------------
(* SpecEngine: one POST /api/generate request through the engine.          *)

ModelIds ==
    { JsUndefined, "str(gpt)", "str(openai/gpt)", "str(openai:gpt)",
      "str(ollama:qwen3:8b)", "str(openrouter:google/gemini)",
      "str(mycorp:m)", "str(unknown:m)" }

EngineBodies ==
    { [model |-> m, prompt |-> pr, response_format |-> rf, schema |-> sc,
       tag |-> TagUndefined] :
         m \in ModelIds, pr \in {"str(p)", "str()", JsUndefined},
         rf \in {JsUndefined, "text", "dict"},
         sc \in {JsUndefined, "str(ok)", "str(bad)"} }

\* appKit.config.providers.
Keyed(url) == [api_key |-> "str(key)", base_url |-> url]
Keyless(url) == [api_key |-> JsUndefined, base_url |-> url]
ProviderConfigs ==
    { NoProviders,
      Providers([p \in {} |-> Keyless(JsUndefined)]),
      Providers([p \in {"openrouter"} |-> Keyed(JsUndefined)]),
      Providers([p \in {"ollama"} |-> Keyless(LocalUrl)]),
      Providers([p \in {"openai"} |-> Keyless(RemoteUrl)]),
      Providers([p \in {"openai", "mycorp"} |-> Keyed(RemoteUrl)]) }

\* process.env.
Envs ==
    { [OPENROUTER_API_KEY |-> k, OPENAI_API_KEY |-> JsUndefined,
       OPENROUTER_BASE_URL |-> JsUndefined] : k \in {JsUndefined, "str(envkey)"} }

EngineStart == \E body \in EngineBodies : GenerateStart(1, body)

EngineGenerate == \E providers \in ProviderConfigs, env \in Envs : generate(1, providers, env)

EngineReply ==
    /\ net[1].st = "calling"
    /\ \E outcome \in Outcomes(net[1].calls[1]) : createReturns(1, outcome)

EngineResume ==
    /\ net[1].st = "returned"
    /\ \E fault1, fault2 \in BOOLEAN : GenerateResume(1, net[1].result, fault1, fault2)

InitEngine == InitRows(1)

NextEngine == EngineStart \/ EngineGenerate \/ EngineReply \/ EngineResume

SpecEngine == InitEngine /\ [][NextEngine]_vars

----------------------------------------------------------------------------
(* The engine: claims C12 to C17, under SpecEngine.                        *)

Started == {n \in DOMAIN reqs : reqs[n].pc # "none"}
Called == {n \in DOMAIN reqs : net[n].st # "idle"}
Finished == {n \in DOMAIN reqs : reqs[n].pc = "done"}

\* C12: a request with response_format "dict" and a schema that does not
\* compile gets status error from the engine with no call to a provider, and
\* every row written for it has a null response.
C12_BadSchemaNoCall ==
    \A n \in Started :
        (reqs[n].body.response_format = "dict" /\ reqs[n].body.schema = "str(bad)")
            => /\ n \in Called
                   => net[n].calls = <<>> /\ net[n].result.status = "error"
               /\ n \in Finished
                   => /\ reqs[n].result.status = "error"
                      /\ \A r \in db : r.id \in reqs[n].rows
                                           => MapRow(r).response = JsNull

\* A finished dict request with a schema that does not compile, and its row.
C12_Witness ==
    \E n \in Finished :
        /\ reqs[n].body.response_format = "dict"
        /\ reqs[n].body.schema = "str(bad)"
        /\ net[n].calls = <<>>
        /\ \E r \in db : r.id \in reqs[n].rows /\ MapRow(r).error = "str(Invalid schema syntax)"

\* The provider of request n has no API key (none in its configuration entry
\* and, for openrouter, none in the environment) and is not local.
NoCredential(n) ==
    LET name == ProviderName(net[n].req.model, net[n].providers)
        config == ConfigOf(net[n].providers, name)
    IN /\ ~Truthy(config.api_key)
       /\ ~(name = "openrouter" /\ Truthy(net[n].env.OPENROUTER_API_KEY))
       /\ name # "ollama"
       /\ ~IsLocalUrl(config.base_url)

\* C13: a request whose provider is not local and has no API key gets status
\* error from the engine, and the engine sends no call for it.
C13_NoKeyNoCall ==
    \A n \in Called :
        NoCredential(n)
            => /\ net[n].calls = <<>>
               /\ net[n].st = "returned" => net[n].result.status = "error"

\* The text of the identifier before its first ":", when it has one and that
\* text is one word; else no prefix.
PrefixOf(model) ==
    LET w == Words(model)
    IN IF includes(w, ":") /\ Len(FirstPart(w, ":")) = 1 THEN w[1] ELSE "none"

\* The provider names the specification knows for a configuration.
KnownProviders(providers) == {"openrouter", "ollama"} \cup DOMAIN providers.entries

\* The calls request n has sent.
CallsOf(n) == {net[n].calls[i] : i \in 1..Len(net[n].calls)}

\* C14: a call for an identifier p:rest with p a known provider goes to
\* provider p with the model name rest.
C14_PrefixRouted ==
    \A n \in Called : \A call \in CallsOf(n) :
        LET w == Words(net[n].req.model)
        IN PrefixOf(net[n].req.model) \in KnownProviders(net[n].providers)
              => /\ call.client.provider = w[1]
                 /\ call.model = SubSeq(w, 3, Len(w))

\* C15: a call for an identifier with no ":" or with an unknown text before
\* its first ":" goes to openrouter with the whole identifier as model name.
C15_DefaultRouted ==
    \A n \in Called : \A call \in CallsOf(n) :
        PrefixOf(net[n].req.model) \notin KnownProviders(net[n].providers)
            => /\ call.client.provider = "openrouter"
               /\ call.model = Words(net[n].req.model)

\* The calls of request n are one plain completion of the raw prompt, not
\* retried, and a successful result is the text with no response_meta.
PlainText(n) ==
    /\ Len(net[n].calls) = 1
    /\ net[n].calls[1].kind = "text"
    /\ net[n].calls[1].content = net[n].req.prompt
    /\ net[n].calls[1].max_retries = 0
    /\ (net[n].st = "returned" /\ net[n].result.status = "success")
          => /\ net[n].result.data = "str(hi)"
             /\ net[n].result.response_meta = JsUndefined

----------------------------------------------------------------------------
(* POST /api/generate: claims C18 and C20.                                 *)

\* C18: the response to a successful request with response_format "dict" and
\* a schema has the shape {data, response_meta?}, never the bare value.
C18_DictWrapped ==
    \A n \in Finished :
        (reqs[n].result.status = "success" /\ reqs[n].res.status = 200)
            => ((reqs[n].body.response_format = "dict" /\ Truthy(reqs[n].body.schema))
                   => reqs[n].res.shape = "wrapped")

----------------------------------------------------------------------------
(* SpecSplit: the split of a structured result into data and               *)
(* response_meta, over every object with keys among x, y and _meta.        *)

SplitKeys == {"x", "y", "_meta"}
SplitValues == {"1", "obj()", "obj(m)", JsNull}
SplitPayloads == UNION {[K -> SplitValues] : K \in SUBSET SplitKeys}

InitSplit ==
    /\ db = {}
    /\ seq = 0
    /\ clock = 0
    /\ resp = NoResp
    /\ reqs = [k \in {1} |-> NoRequest]
    /\ issued = {}
    /\ \E P \in SplitPayloads : net = [k \in {1} |-> [st |-> "payload", payload |-> P]]
    /\ py = NoPython

Split ==
    /\ net[1].st = "payload"
    /\ net' = [net EXCEPT ![1] = [st |-> "split", payload |-> net[1].payload,
                                  part |-> SplitMeta(net[1].payload)]]
    /\ UNCHANGED <<db, seq, clock, resp, reqs, issued, py>>

NextSplit == Split

SpecSplit == InitSplit /\ [][NextSplit]_vars

\* C19: for a payload P with the field _meta, data is P without _meta,
\* response_meta is P._meta, and data with _meta put back is P.
C19_SplitRoundTrip ==
    \A n \in DOMAIN net :
        (net[n].st = "split" /\ "_meta" \in DOMAIN net[n].payload)
            => LET P == net[n].payload
                   data == net[n].part.data
                   meta == net[n].part.response_meta
               IN /\ DOMAIN data = DOMAIN P \ {"_meta"}
                  /\ \A k \in DOMAIN data : data[k] = P[k]
                  /\ meta = P["_meta"]
                  /\ [k \in DOMAIN data \cup {"_meta"} |->
                         IF k = "_meta" THEN meta ELSE data[k]] = P

\* The split of {x: 1, _meta: {tokens: 3}}.
C19_Witness ==
    \E n \in DOMAIN net :
        /\ net[n].st = "split"
        /\ net[n].payload = [x |-> "1", _meta |-> "obj(m)"]
        /\ net[n].part.data = [x |-> "1"]

\* C20: every request whose handler has run to its end has one response,
\* 200 or 500 with a detail string, and no exception has left the handler.
C20_OneResponse ==
    \A n \in Finished :
        /\ ~reqs[n].unhandled
        /\ reqs[n].res # NoResp
        /\ reqs[n].res.status \in {200, 500}
        /\ reqs[n].res.status = 500 => Truthy(reqs[n].res.detail)

----------------------------------------------------------------------------
(* SpecFrame: the requests of the logs page and POST /api/generate through *)
(* the engine, over a store of two rows.                                   *)

FrameBodies ==
    { [model |-> "str(gpt)", prompt |-> "str(p)", response_format |-> f[1],
       schema |-> f[2], tag |-> tg] :
         f \in {<<JsUndefined, JsUndefined>>, <<"dict", "str(ok)">>},
         tg \in {TagUndefined, <<"a">>} }

FrameStart ==
    \E n \in DOMAIN reqs, body \in FrameBodies :
        /\ \A k \in DOMAIN reqs : reqs[k].pc # "await"
        /\ GenerateStart(n, body)

\* process.env of the server.
FrameEnv ==
    [OPENROUTER_API_KEY |-> "str(envkey)", OPENAI_API_KEY |-> JsUndefined,
     OPENROUTER_BASE_URL |-> JsUndefined]

FrameGenerate == \E n \in DOMAIN reqs : generate(n, NoProviders, FrameEnv)

FrameReply ==
    \E n \in DOMAIN reqs :
        /\ net[n].st = "calling"
        /\ \E outcome \in Outcomes(net[n].calls[1]) : createReturns(n, outcome)

FrameResume ==
    \E n \in DOMAIN reqs :
        /\ net[n].st = "returned"
        /\ reqs[n].pc = "await"
        /\ GenerateResume(n, net[n].result, FALSE, FALSE)

FrameGetLogs ==
    \E t \in {TagUndefined, <<"a">>} :
        GetLogsHandler(1, 2, [tag |-> t, start_date |-> NoDate, end_date |-> NoDate])

InitFrame == InitRows(2)

NextFrame ==
    \/ StoreTick \/ EndTurn \/ FrameStart \/ FrameGenerate \/ FrameReply
    \/ FrameResume \/ FrameGetLogs \/ GetTagsHandler \/ Purge \/ Delete \/ Patch

SpecFrame == InitFrame /\ [][NextFrame]_vars

----------------------------------------------------------------------------
(* LogsPage.tsx: the rerun dialog.                                         *)

\* The JavaScript string JSON.stringify returns, from the text of the JSON.
AsString(text) ==
    CASE text = "TEXT \"ok\"" -> "str(\"ok\")"
      [] text = "TEXT \"bad\"" -> "str(\"bad\")"
      [] text = "TEXT \"hi\"" -> "str(\"hi\")"
      [] OTHER -> "str(?)"

\* `selectedLog.metadata?.format === 'dict' ? 'dict' : 'text'`
RerunFormat(log) == IF log.metadata.format = "dict" THEN "dict" ELSE "text"

\* `selectedLog.tag || undefined`
RerunTag(log) == IF log.tag \in {TagNull, <<>>} THEN TagUndefined ELSE log.tag

\* handleRerun with the record selectedLog and the fields of the dialog, up to
\* the arrival of its POST /api/generate at the handler.
handleRerun(n, selectedLog, rerunModel, rerunPrompt, rerunFormat) ==
    /\ Truthy(rerunModel)
    /\ Truthy(rerunPrompt)
    /\ GenerateStart(n,
          [ model |-> rerunModel, prompt |-> rerunPrompt,
            tag |-> RerunTag(selectedLog), response_format |-> rerunFormat,
            schema |-> IF rerunFormat = "dict" /\ Truthy(selectedLog.metadata.schema)
                       THEN AsString(JSONstringify(selectedLog.metadata.schema))
                       ELSE JsUndefined ])

----------------------------------------------------------------------------
(* SpecRerun: calls made with a schema, logged, and run again from the     *)
(* logs page.                                                              *)

RerunBodies ==
    { [model |-> "str(m)", prompt |-> "str(p)", response_format |-> rf,
       schema |-> sc, tag |-> tg] :
         rf \in {JsUndefined, "text", "dict"},
         sc \in {JsUndefined, "str(ok)", "str(bad)"},
         tg \in {TagUndefined, <<"a">>} }

RerunOriginal ==
    \E n \in DOMAIN reqs, body \in RerunBodies :
        /\ \A k \in DOMAIN reqs : reqs[k].pc # "await"
        /\ GenerateStart(n, body)

RerunResume ==
    \E n \in DOMAIN reqs :
        /\ reqs[n].pc = "await"
        /\ \E result \in EngineResults(reqs[n].body) :
               GenerateResume(n, result, FALSE, FALSE)

\* The record of the dialog is one the page has fetched: the object getLogs
\* makes of a row of the table. The format of the dialog is the one the
\* record opened it with, or the one the user selected.
Rerun ==
    \E n \in DOMAIN reqs, r \in db, rerunFormat \in {"text", "dict"} :
        /\ \A k \in DOMAIN reqs : reqs[k].pc # "await"
        /\ handleRerun(n, MapRow(r), MapRow(r).model, MapRow(r).prompt, rerunFormat)

InitRerun == InitRows(2)

NextRerun == StoreTick \/ RerunOriginal \/ RerunResume \/ Rerun

SpecRerun == InitRerun /\ [][NextRerun]_vars

----------------------------------------------------------------------------
(* pythonManager.ts: start(), stop(), the "exit" listener and the callback *)
(* of stop()'s setTimeout.                                                 *)

\* start(): warns and returns when a child is tracked, else spawns one and
\* tracks it.
startUnguarded ==
    /\ py.spawned < MaxSpawn
    /\ py' = [py EXCEPT !.spawned = @ + 1,
                        !.process = py.spawned + 1,
                        !.children[py.spawned + 1].st = "running"]
    /\ UNCHANGED <<db, seq, clock, resp, reqs, issued, net>>
start ==
    /\ IF py.process # NoChild
       THEN /\ py.warnings < MaxWarnings
            /\ py' = [py EXCEPT !.warnings = @ + 1]
       ELSE /\ py.spawned < MaxSpawn
            /\ py' = [py EXCEPT !.spawned = @ + 1,
                                !.process = py.spawned + 1,
                                !.children[py.spawned + 1].st = "running"]
    /\ UNCHANGED <<db, seq, clock, resp, reqs, issued, net>>

\* stop() up to the return of its promise: resolved at once when no child is
\* tracked, else SIGTERM to the tracked child and a timer of 5000 ms.
stop ==
    /\ py.stops < MaxStops
    /\ IF py.process = NoChild
       THEN py' = [py EXCEPT !.stops = @ + 1, !.resolved = @ + 1]
       ELSE py' = [py EXCEPT !.stops = @ + 1,
                            !.children[py.process].signals = @ \cup {"SIGTERM"},
                            !.timers = Append(@, [child |-> py.process])]
    /\ UNCHANGED <<db, seq, clock, resp, reqs, issued, net>>

\* The callback of setTimeout: timers of equal delay fire in the order they
\* were set. It reads this.process when it runs.
timeout ==
    /\ py.timers # <<>>
    /\ IF py.process # NoChild
       THEN py' = [py EXCEPT !.timers = Tail(@), !.resolved = @ + 1,
                            !.children[py.process].signals = @ \cup {"SIGKILL"},
                            !.kills = @ \cup {<<Head(py.timers).child, py.process>>}]
       ELSE py' = [py EXCEPT !.timers = Tail(@), !.resolved = @ + 1]
    /\ UNCHANGED <<db, seq, clock, resp, reqs, issued, net>>

\* The child ends, of itself or of a signal, and its "exit" listener runs.
exit(c) ==
    /\ py.children[c].st = "running"
    /\ py' = [py EXCEPT !.children[c].st = "exited", !.process = NoChild]
    /\ UNCHANGED <<db, seq, clock, resp, reqs, issued, net>>

----------------------------------------------------------------------------
(* SpecPython: the PythonManager under any order of start(), stop(), child *)
(* exits and timers.                                                       *)

ChildExit == \E c \in 1..MaxSpawn : exit(c)

NextPython == start \/ stop \/ timeout \/ ChildExit

SpecPython == InitRows(1) /\ [][NextPython]_vars

----------------------------------------------------------------------------
(* Claims C21 to C30.                                                      *)

\* C21: a request whose prompt is empty or missing is rejected before the
\* engine resolves a provider: no call is sent for it and it ends in error.
C21_EmptyPromptNoCall ==
    \A n \in Called :
        ~Truthy(net[n].req.prompt)
            => /\ net[n].calls = <<>>
               /\ net[n].st = "returned" => net[n].result.status = "error"

\* C22: every DELETE request the clients send to /api/logs names exactly one
\* of count_to_keep and days_to_keep.
C22_PurgeOneParameter ==
    (resp.status = 404 /\ resp.method = "DELETE" /\ resp.path = "/api/logs")
        => /\ Len(resp.query) = 2
           /\ resp.query[1] \in {"count_to_keep", "days_to_keep"}

\* The requests whose provider call has not returned.
InFlight == {n \in DOMAIN reqs : reqs[n].pc = "await"}

\* C23: while the provider call of another request has not returned, a
\* request whose call has returned has its response and one row of its own,
\* with its model, its prompt and its outcome.
C23_StuckCallBlocksOnlyItself ==
    \A n \in Done :
        InFlight # {}
            => /\ reqs[n].res # NoResp
               /\ Cardinality(RowsOf(n)) = 1
               /\ \A r \in RowsOf(n) :
                      /\ MapRow(r).model = reqs[n].body.model
                      /\ MapRow(r).prompt = reqs[n].body.prompt
                      /\ (reqs[n].result.status = "success") = (MapRow(r).error = JsNull)
               /\ \A k \in Done \ {n} : RowsOf(k) \cap RowsOf(n) = {}

\* C24: no step changes a field other than locked of a row that is in the
\* table before and after it, and a step of the engine (generate() up to
\* create(), and the return of create()) leaves the table and its sequence as
\* they were.
C24_RecordsImmutable ==
    [][/\ \A r \in db : \A q \in db' :
              q.id = r.id => [q EXCEPT !.locked = r.locked] = r
       /\ net' # net => (db' = db /\ seq' = seq)]_vars

\* A second row has been appended at a later instant than the first, each
\* through a call of the engine, and the logs page has listed both.
C24_Witness ==
    /\ Cardinality(db) = 2
    /\ \E a, b \in db : a.timestamp < b.timestamp
    /\ \A n \in DOMAIN net : net[n].st = "returned"
    /\ resp.status = 200 /\ resp.path = "/api/logs" /\ Len(resp.data) = 2

\* C25: when the result of the engine has no response_meta (a structured
\* payload without _meta, a text completion, a failed call), the response has
\* none and the record of the call reads back with response_meta null.
C25_NoMetaIsNull ==
    \A n \in Finished :
        reqs[n].result.response_meta \in {JsUndefined, JsNull}
            => /\ reqs[n].res # NoResp => "response_meta" \notin DOMAIN reqs[n].res
               /\ \A r \in RowsOf(n) : MapRow(r).response_meta = JsNull

\* C26: a request whose generation succeeded is answered 200 with the
\* payload, whether or not the INSERT of its record threw.
C26_AppendFailureNotMasking ==
    \A n \in Done :
        reqs[n].result.status = "success"
            => /\ reqs[n].res # NoResp
               /\ reqs[n].res.status = 200
               /\ reqs[n].res.data = reqs[n].result.data

\* C27: of two rows the one with the smaller id has the earlier or the same
\* timestamp, and the timestamp of a row is the instant its call completed
\* (the arrival of its request plus the duration of the call).
C27_IdOrderIsTimeOrder ==
    /\ \A a, b \in db : a.id < b.id => a.timestamp <= b.timestamp
    /\ \A n \in Done : \A r \in RowsOf(n) :
           r.timestamp = reqs[n].startTime + r.duration_ms

\* Request 1 arrived before request 2 and completed after it: the row of
\* request 2 has the smaller id and the earlier timestamp.
C27_Witness ==
    /\ Done = {1, 2}
    /\ reqs[1].startTime < reqs[2].startTime
    /\ \E a \in RowsOf(1), b \in RowsOf(2) : b.id < a.id /\ b.timestamp < a.timestamp

\* C28: a rerun of a record whose metadata.format is "dict", with the dialog's
\* format as the record opened it, sends the schema string of the record's
\* metadata.schema, the record's tag and the record's format.
C28_RerunSameSchema ==
    [][\A n \in DOMAIN reqs : \A r \in db :
          LET log == MapRow(r)
          IN (/\ log.metadata.format = "dict"
              /\ handleRerun(n, log, log.model, log.prompt, RerunFormat(log)))
                 => /\ reqs'[n].body.schema = log.metadata.schema
                    /\ reqs'[n].body.response_format = log.metadata.format
                    /\ BindTag(reqs'[n].body.tag) = log.tag]_vars

\* The children that are running.
Running == {c \in 1..MaxSpawn : py.children[c].st = "running"}

\* C29: at most one child runs, and it is the tracked one: none runs when no
\* child is tracked.
C29_AtMostOneChild ==
    /\ Cardinality(Running) <= 1
    /\ Running = IF py.process = NoChild THEN {} ELSE {py.process}

\* A start() found the first child running and spawned nothing; the child
\* exited, and a later start() spawned the second.
C29_Witness ==
    /\ py.warnings = 1
    /\ py.children[1].st = "exited"
    /\ py.spawned = 2
    /\ py.process = 2

\* C30: the timer of a stop() sends SIGKILL to no other child than the one
\* that stop() sent SIGTERM.
C30_StopSignalsItsChild ==
    \A k \in py.kills : k[1] = k[2]

====
